---- MODULE Spec2Model ----
(***************************************************************************)
(* A model of mycareersfuture_server_python/main.py: the salary formatter  *)
(* (_format_salary), the search client (_request_jobs: term resolution,    *)
(* one HTTP POST, normalisation of the provider's results) and the tool    *)
(* handler (_call_tool_request: validation, error envelopes, summary).     *)
(*                                                                         *)
(* Python values are tagged records: None, numbers, strings, lists and     *)
(* dicts.  A string is a sequence of one-character strings, so that        *)
(* strip(), title(), str() and the ",.0f" number format are computed       *)
(* character by character.  A number is n (an int) or n + 0.5 (a float     *)
(* with h = TRUE), which is enough for int() and ".0f" rounding to differ  *)
(* from the identity.  An evaluation that can raise yields Ok(v) or        *)
(* Raise(exception name).                                                  *)
(***************************************************************************)
EXTENDS Integers, Sequences, FiniteSets, TLC

VARIABLES
    pc,          \* position of the invocation in _call_tool_request
    req,         \* the CallToolRequest: [name, arguments]
    provider,    \* what the provider answers to a POST (the environment)
    payload,     \* the validated JobSearchInput, or None before validation
    httpCalls,   \* number of requests.post calls issued by this invocation
    httpRequest, \* params and JSON body of the request issued, or None
    data,        \* response.json(), or None
    result,      \* what _request_jobs returned or raised, or None
    response,    \* the ServerResult returned (or the exception escaping), or None
    salaryRaw,   \* argument of a direct _format_salary call
    salaryOut    \* its outcome, or None before the call

vars == <<pc, req, provider, payload, httpCalls, httpRequest, data, result,
          response, salaryRaw, salaryOut>>

----------------------------------------------------------------------------
(* Python values *)

None == [t |-> "None"]
Num(n) == [t |-> "num", n |-> n, h |-> FALSE]
Half(n) == [t |-> "num", n |-> n, h |-> TRUE]
Str(s) == [t |-> "str", s |-> s]
List(l) == [t |-> "list", l |-> l]
Dict(d) == [t |-> "dict", d |-> d]

\* a key that a dict does not hold
Absent == [t |-> "absent"]

EmptyMap == [k \in {} |-> None]
EmptyDict == Dict(EmptyMap)

IsNone(x) == x.t = "None"
IsNum(x) == x.t = "num"
IsStr(x) == x.t = "str"
IsList(x) == x.t = "list"
IsDict(x) == x.t = "dict"

Ok(v) == [ok |-> TRUE, v |-> v]
Raise(e) == [ok |-> FALSE, exc |-> e]

\* bool(x)
Truthy(x) ==
    CASE IsNone(x) -> FALSE
      [] IsNum(x) -> x.n # 0 \/ x.h
      [] IsStr(x) -> x.s # <<>>
      [] IsList(x) -> x.l # <<>>
      [] IsDict(x) -> DOMAIN x.d # {}

\* a or b
Or(a, b) == IF Truthy(a) THEN a ELSE b

\* d.get(key, default) on a dict d
Get(d, key, default) == IF key \in DOMAIN d.d THEN d.d[key] ELSE default

----------------------------------------------------------------------------
(* Characters and strings *)

LowerLetters == <<"a","b","c","d","e","f","g","h","i","j","k","l","m",
                  "n","o","p","q","r","s","t","u","v","w","x","y","z">>
UpperLetters == <<"A","B","C","D","E","F","G","H","I","J","K","L","M",
                  "N","O","P","Q","R","S","T","U","V","W","X","Y","Z">>
DigitChars == <<"0","1","2","3","4","5","6","7","8","9">>
Whitespace == {" ", "\t", "\n"}
\* the en dash of line 93, one character
EnDash == "U+2013"

IsLower(c) == \E i \in 1..26 : LowerLetters[i] = c
IsUpper(c) == \E i \in 1..26 : UpperLetters[i] = c
IsCased(c) == IsLower(c) \/ IsUpper(c)
Upper(c) == IF IsLower(c) THEN UpperLetters[CHOOSE i \in 1..26 : LowerLetters[i] = c] ELSE c
Lower(c) == IF IsUpper(c) THEN LowerLetters[CHOOSE i \in 1..26 : UpperLetters[i] = c] ELSE c

\* str.title(): a cased character is upper-cased when it starts a run of cased
\* characters and lower-cased inside one
RECURSIVE TitleFrom(_, _)
TitleFrom(s, prevCased) ==
    IF s = <<>> THEN <<>>
    ELSE <<IF prevCased THEN Lower(Head(s)) ELSE Upper(Head(s))>>
         \o TitleFrom(Tail(s), IsCased(Head(s)))

Title(s) == TitleFrom(s, FALSE)

\* str.strip(): leading and trailing whitespace removed
RECURSIVE LStrip(_)
LStrip(s) == IF s # <<>> /\ Head(s) \in Whitespace THEN LStrip(Tail(s)) ELSE s

RECURSIVE RStrip(_)
RStrip(s) ==
    IF s # <<>> /\ s[Len(s)] \in Whitespace THEN RStrip(SubSeq(s, 1, Len(s) - 1)) ELSE s

\* lstrip() in place of strip()
Strip_LeftOnly(s) == LStrip(s)

Strip(s) == RStrip(LStrip(s))

\* decimal digits of a natural number
RECURSIVE Digits(_)
Digits(n) ==
    IF n < 10 THEN <<DigitChars[n + 1]>>
    ELSE Digits(n \div 10) \o <<DigitChars[(n % 10) + 1]>>

\* the "," option of the format mini-language: groups of three from the right
RECURSIVE Group(_)
Group(ds) ==
    IF Len(ds) <= 3 THEN ds
    ELSE Group(SubSeq(ds, 1, Len(ds) - 3)) \o <<",">> \o SubSeq(ds, Len(ds) - 2, Len(ds))

Abs(n) == IF n < 0 THEN -n ELSE n

\* round(x) to 0 decimals as ".0f" does: ties go to the even neighbour
RoundHalfEven(x) == IF x.h THEN (IF x.n % 2 = 0 THEN x.n ELSE x.n + 1) ELSE x.n

\* format(x, ",.0f") for a number x; the sign is that of x itself ("-0" for -0.5)
FormatCommaF(x) ==
    (IF x.n < 0 THEN <<"-">> ELSE <<>>) \o Group(Digits(Abs(RoundHalfEven(x))))

\* format(n, ",") for an int
FormatCommaInt(n) == (IF n < 0 THEN <<"-">> ELSE <<>>) \o Group(Digits(Abs(n)))

\* int(x) for a number: truncation toward zero
PyInt(x) == IF x.h /\ x.n < 0 THEN x.n + 1 ELSE x.n

\* str(x) for a string or a number (repr of a float n + 0.5 is "<n>.5")
PyStr(x) ==
    CASE IsStr(x) -> x.s
      [] IsNum(x) /\ ~x.h -> (IF x.n < 0 THEN <<"-">> ELSE <<>>) \o Digits(Abs(x.n))
      [] IsNum(x) /\ x.h ->
            (IF x.n < 0 THEN <<"-">> \o Digits(-x.n - 1) ELSE Digits(x.n)) \o <<".", "5">>
      [] IsNone(x) -> <<"N", "o", "n", "e">>

----------------------------------------------------------------------------
(* _format_salary *)

\* f"${x:,.0f}": float.__format__ for a number; str.__format__ rejects the
\* "," and "f" codes (ValueError); None, list and dict reject any format
\* string (TypeError)
FormatMoney(x) ==
    CASE IsNum(x) -> Ok(<<"$">> \o FormatCommaF(x))
      [] IsStr(x) -> Raise("ValueError")
      [] OTHER -> Raise("TypeError")

\* line 92: minimum and maximum and minimum != maximum.  Two values of
\* different types are unequal; two strings, lists or dicts are compared by value
IsRange(minimum, maximum) ==
    /\ Truthy(minimum)
    /\ Truthy(maximum)
    /\ (minimum.t # maximum.t \/ minimum # maximum)

\* lines 92-96: the rendered range or single value
SalaryRange(minimum, maximum) ==
    IF IsRange(minimum, maximum)
    THEN LET lo == FormatMoney(minimum)
             hi == FormatMoney(maximum)
         IN  IF ~lo.ok THEN lo
             ELSE IF ~hi.ok THEN hi
             ELSE Ok(Str(lo.v \o <<" ", EnDash, " ">> \o hi.v))
    ELSE LET value == IF ~IsNone(minimum) THEN minimum ELSE maximum
         IN  IF IsNone(value) THEN Ok(None)
             ELSE LET one == FormatMoney(value)
                  IN  IF one.ok THEN Ok(Str(one.v)) ELSE one

\* line 99: f" {salary_type.title()}" if salary_type else ""
SalarySuffix(salary_type) ==
    IF ~Truthy(salary_type) THEN Ok(<<>>)
    ELSE IF ~IsStr(salary_type) THEN Raise("AttributeError")
    ELSE Ok(<<" ">> \o Title(salary_type.s))

\* lines 84-100
_format_salary(raw) ==
    IF ~Truthy(raw) THEN Ok(None)
    ELSE IF ~IsDict(raw) THEN Raise("AttributeError")
    ELSE
      LET minimum == Get(raw, "minimum", None)
          maximum == Get(raw, "maximum", None)
          type == Get(raw, "type", EmptyDict)
      IN  IF ~IsDict(type) THEN Raise("AttributeError")
          ELSE
            LET salary_type == Get(type, "salaryType", Str(<<>>))
            IN  IF IsNone(minimum) /\ IsNone(maximum) THEN Ok(None)
                ELSE
                  LET salary_range == SalaryRange(minimum, maximum)
                  IN  IF ~salary_range.ok THEN salary_range
                      ELSE IF ~Truthy(salary_range.v) THEN Ok(None)
                      ELSE LET suffix == SalarySuffix(salary_type)
                           IN  IF ~suffix.ok THEN suffix
                               ELSE Ok(Str(salary_range.v.s \o suffix.v))

----------------------------------------------------------------------------
(* _request_jobs: the Posting Normalizer (the body of the loop, lines 184-233) *)

\* lines 188-202: [str(e.get(key)) for e in value if e and e.get(key)].
\* Iterating None or a number is a TypeError; an entry that is truthy and
\* not a dict has no .get (AttributeError), and so has each element that
\* iterating a non-empty string or dict yields
RECURSIVE NamesOf(_, _)
NamesOf(entries, key) ==
    IF entries = <<>> THEN Ok(<<>>)
    ELSE LET e == Head(entries)
             rest == NamesOf(Tail(entries), key)
         IN  IF ~Truthy(e) THEN rest
             ELSE IF ~IsDict(e) THEN Raise("AttributeError")
             ELSE IF ~rest.ok THEN rest
             ELSE IF Truthy(Get(e, key, None))
                  THEN Ok(<<PyStr(Get(e, key, None))>> \o rest.v)
                  ELSE rest

NameList(value, key) ==
    CASE IsList(value) -> NamesOf(value.l, key)
      [] IsNone(value) \/ IsNum(value) -> Raise("TypeError")
      [] OTHER -> IF Truthy(value) THEN Raise("AttributeError") ELSE Ok(<<>>)

\* line 204: districts[0] if districts else {}
PrimaryDistrict(districts) ==
    IF ~Truthy(districts) THEN Ok(EmptyDict)
    ELSE CASE IsList(districts) -> Ok(districts.l[1])
           [] IsStr(districts) -> Ok(Str(<<districts.s[1]>>))
           [] IsDict(districts) -> Raise("KeyError")
           [] OTHER -> Raise("TypeError")

\* lines 205-209: street or primary_district.get("location") or district;
\* primary_district.get is reached only when street is falsy
Location(address, primary_district) ==
    IF Truthy(Get(address, "street", None)) THEN Ok(Get(address, "street", None))
    ELSE IF ~IsDict(primary_district) THEN Raise("AttributeError")
    ELSE Ok(Or(Get(primary_district, "location", None), Get(address, "district", None)))

\* line 218: the literal "Untitled role"
UntitledRole == <<"U","n","t","i","t","l","e","d"," ","r","o","l","e">>

\* the fallback without the running count: str(... or 0)
PostingId_ZeroIndex(metadata, item, count) ==
    PyStr(Or(Or(Get(metadata, "jobPostId", None), Get(item, "uuid", None)), Num(0)))

\* lines 213-217: str(metadata.get("jobPostId") or item.get("uuid") or len(postings))
PostingId(metadata, item, count) ==
    PyStr(Or(Or(Get(metadata, "jobPostId", None), Get(item, "uuid", None)), Num(count)))

\* lines 212-232: the JobPosting constructor call, its arguments evaluated in
\* order; loc holds the locals the loop body has computed
MakePosting(item, loc, count) ==
    IF ~IsDict(loc.metadata) \/ ~IsDict(loc.posted_company)
       \/ ~IsDict(loc.primary_district)
    THEN Raise("AttributeError")
    ELSE Ok([id |-> PostingId(loc.metadata, item, count),
             title |-> PyStr(Or(Get(item, "title", None), Str(UntitledRole))),
             company |-> Get(loc.posted_company, "name", None),
             url |-> Get(loc.metadata, "jobDetailsUrl", None),
             salary |-> loc.salary,
             location |-> loc.location,
             region |-> Get(loc.primary_district, "region", None),
             categories |-> loc.categories,
             employment_types |-> loc.employment_types,
             skills |-> loc.skills,
             updated_at |-> Get(loc.metadata, "updatedAt", None),
             posted_at |-> Get(loc.metadata, "newPostingDate", None),
             score |-> Get(item, "score", None),
             lat |-> Get(loc.address, "lat", None),
             lng |-> Get(loc.address, "lng", None)])

\* lines 185-233: one iteration of the loop, count = len(postings)
NormalizeItem(item, count) ==
    IF ~IsDict(item) THEN Raise("AttributeError")
    ELSE
      LET metadata == Or(Get(item, "metadata", EmptyDict), EmptyDict)
          posted_company == Or(Get(item, "postedCompany", None), EmptyDict)
          address == Or(Get(item, "address", None), EmptyDict)
          categories == NameList(Get(item, "categories", List(<<>>)), "category")
          employment_types ==
              NameList(Get(item, "employmentTypes", List(<<>>)), "employmentType")
          skills == NameList(Get(item, "skills", List(<<>>)), "skill")
      IN  IF ~categories.ok THEN categories
          ELSE IF ~employment_types.ok THEN employment_types
          ELSE IF ~skills.ok THEN skills
          ELSE IF ~IsDict(address) THEN Raise("AttributeError")
          ELSE
            LET districts == Or(Get(address, "districts", None), List(<<>>))
                primary_district == PrimaryDistrict(districts)
            IN  IF ~primary_district.ok THEN primary_district
                ELSE
                  LET location == Location(address, primary_district.v)
                      salary == _format_salary(Get(item, "salary", None))
                  IN  IF ~location.ok THEN location
                      ELSE IF ~salary.ok THEN salary
                      ELSE MakePosting(item,
                                       [metadata |-> metadata,
                                        posted_company |-> posted_company,
                                        address |-> address,
                                        primary_district |-> primary_district.v,
                                        categories |-> categories.v,
                                        employment_types |-> employment_types.v,
                                        skills |-> skills.v,
                                        location |-> location.v,
                                        salary |-> salary.v],
                                       count)

\* postings.insert(0, ...) in place of append
AppendPosting_AtFront(postings, posting) == <<posting>> \o postings

\* line 211: postings.append(...)
AppendPosting(postings, posting) == Append(postings, posting)

\* lines 183-233: the loop over raw_results, stopped by the first exception
RECURSIVE NormalizeFrom(_, _)
NormalizeFrom(items, postings) ==
    IF items = <<>> THEN Ok(postings)
    ELSE LET p == NormalizeItem(Head(items), Len(postings))
         IN  IF ~p.ok THEN p
             ELSE NormalizeFrom(Tail(items), AppendPosting(postings, p.v))

\* line 235: int(data.get("total") or len(postings)); int() parses a string
\* of decimal digits and rejects any other string (ValueError), a list, a
\* dict (TypeError)
RECURSIVE ParseDigits(_, _)
ParseDigits(s, acc) ==
    IF s = <<>> THEN acc
    ELSE ParseDigits(Tail(s),
                     10 * acc + (CHOOSE d \in 0..9 : DigitChars[d + 1] = Head(s)))

IntOf(x) ==
    CASE IsNum(x) -> Ok(PyInt(x))
      [] IsStr(x) ->
            IF Strip(x.s) # <<>>
               /\ \A i \in 1..Len(Strip(x.s)) :
                     \E d \in 1..10 : DigitChars[d] = Strip(x.s)[i]
            THEN Ok(ParseDigits(Strip(x.s), 0))
            ELSE Raise("ValueError")
      [] OTHER -> Raise("TypeError")

TotalResults(body, postings) == IntOf(Or(Get(body, "total", None), Num(Len(postings))))

\* lines 144-147: (payload.search_term or "software engineer").strip()
\*                or "software engineer"
DefaultTerm == <<"s","o","f","t","w","a","r","e"," ","e","n","g","i","n","e","e","r">>

EffectiveTerm(search_term) ==
    LET stripped == Strip(IF Truthy(search_term) THEN search_term.s ELSE DefaultTerm)
    IN  IF stripped # <<>> THEN stripped ELSE DefaultTerm

\* lines 180-251: what _request_jobs does with the decoded body
SearchResult(term, body) ==
    LET raw_results == Or(Get(body, "results", List(<<>>)), List(<<>>))
    IN  IF IsNum(raw_results) THEN Raise("TypeError")
        ELSE IF ~IsList(raw_results) THEN Raise("AttributeError")
        ELSE LET postings == NormalizeFrom(raw_results.l, <<>>)
             IN  IF ~postings.ok THEN postings
                 ELSE LET total_results == TotalResults(body, postings.v)
                      IN  IF ~total_results.ok THEN total_results
                          ELSE Ok([search_term |-> term,
                                   total |-> total_results.v,
                                   jobs |-> postings.v])

\* line 167: response.raise_for_status() raises HTTPError (a RequestException)
\* for a 4xx or 5xx status and for no other
RaisesForStatus(status) == 400 <= status /\ status < 600

----------------------------------------------------------------------------
(* JobSearchInput (lines 109-139) and its validation *)

TOOL_NAME == "mycf-job-list"
DEFAULT_LIMIT == 20
DEFAULT_PAGE == 0
LIMIT_MIN == 1
LIMIT_MAX == 50
PAGE_MIN == 0
PAGE_MAX == 50

\* the keys the model accepts: each field's alias and, with
\* populate_by_name, its name (line 139); extra="forbid" rejects any other
AcceptedKeys == {"searchTerm", "search_term", "limit", "page"}

\* the value given for search_term, Absent when none is: the alias goes first
GivenTerm(arguments) ==
    IF "searchTerm" \in DOMAIN arguments.d THEN arguments.d["searchTerm"]
    ELSE IF "search_term" \in DOMAIN arguments.d THEN arguments.d["search_term"]
    ELSE Absent

\* the field without its le= bound
IntFieldErrors_NoUpper(arguments, alias, lo, hi) ==
    IF alias \notin DOMAIN arguments.d THEN <<>>
    ELSE LET v == arguments.d[alias]
         IN  IF ~IsNum(v) \/ v.h THEN <<[loc |-> alias, type |-> "int_type"]>>
             ELSE IF v.n < lo THEN <<[loc |-> alias, type |-> "greater_than_equal"]>>
             ELSE <<>>

\* the errors of one bounded integer field (ge=, le=), in pydantic's error types
IntFieldErrors(arguments, alias, lo, hi) ==
    IF alias \notin DOMAIN arguments.d THEN <<>>
    ELSE LET v == arguments.d[alias]
         IN  IF ~IsNum(v) \/ v.h THEN <<[loc |-> alias, type |-> "int_type"]>>
             ELSE IF v.n < lo THEN <<[loc |-> alias, type |-> "greater_than_equal"]>>
             ELSE IF v.n > hi THEN <<[loc |-> alias, type |-> "less_than_equal"]>>
             ELSE <<>>

\* search_term: Optional[str]
TermErrors(arguments) ==
    IF GivenTerm(arguments).t \in {"absent", "None", "str"} THEN <<>>
    ELSE <<[loc |-> "searchTerm", type |-> "string_type"]>>

RECURSIVE ExtraErrors(_)
ExtraErrors(keys) ==
    IF keys = {} THEN <<>>
    ELSE LET k == CHOOSE x \in keys : TRUE
         IN  <<[loc |-> k, type |-> "extra_forbidden"]>> \o ExtraErrors(keys \ {k})

\* exc.errors() of JobSearchInput.model_validate(arguments): fields in
\* declaration order, then the unknown keys
ValidationErrors(arguments) ==
    TermErrors(arguments)
    \o IntFieldErrors(arguments, "limit", LIMIT_MIN, LIMIT_MAX)
    \o IntFieldErrors(arguments, "page", PAGE_MIN, PAGE_MAX)
    \o ExtraErrors(DOMAIN arguments.d \ AcceptedKeys)

\* the validated model: a missing field takes its default
ValidatedPayload(arguments) ==
    [search_term |-> IF GivenTerm(arguments).t = "absent"
                     THEN Str(DefaultTerm) ELSE GivenTerm(arguments),
     limit |-> Get(arguments, "limit", Num(DEFAULT_LIMIT)).n,
     page |-> Get(arguments, "page", Num(DEFAULT_PAGE)).n]

\* line 475: req.params.arguments or {}
Arguments(request) == Or(request.arguments, EmptyDict)

----------------------------------------------------------------------------
(* _call_tool_request: the results it returns *)

ErrorResult(text) ==
    [kind |-> "result", isError |-> TRUE, text |-> text, structuredContent |-> None]

\* lines 463-473
UnknownToolResult(name) == ErrorResult(<<"Unknown tool: ", name>>)

\* lines 482-492
ValidationErrorResult(errors) == ErrorResult(<<"Input validation error: ", errors>>)

\* the handler without its except clause
HandleRequestException_Reraise(exc) == [kind |-> "raised", exc |-> exc]

\* lines 504-521: the handler of requests.RequestException
HandleRequestException(exc) ==
    ErrorResult(<<"Unable to fetch jobs from MyCareersFuture: ", exc>>)

\* lines 57-74: JobPosting.to_structured
ToStructured(job) ==
    [id |-> job.id, title |-> job.title, company |-> job.company,
     jobUrl |-> job.url, salary |-> job.salary, location |-> job.location,
     region |-> job.region, categories |-> job.categories,
     employmentTypes |-> job.employment_types, skills |-> job.skills,
     updatedAt |-> job.updated_at, postedAt |-> job.posted_at,
     score |-> job.score, lat |-> job.lat, lng |-> job.lng]

\* lines 530-534
StructuredContent(r) ==
    [searchTerm |-> r.search_term,
     total |-> r.total,
     jobs |-> [i \in 1..Len(r.jobs) |-> ToStructured(r.jobs[i])]]

\* the summary with len(result.jobs) where result.total belongs
TextSummary_CountForTotal(r) ==
    IF r.jobs # <<>>
    THEN <<"Found ", FormatCommaInt(Len(r.jobs)), " jobs for '", r.search_term,
           "'. Showing top ", Digits(Len(r.jobs)), " results in the carousel.">>
    ELSE <<"No jobs found for '", r.search_term, "'. Try a broader search.">>

\* lines 540-548: the summary, as the segments the f-strings join
TextSummary(r) ==
    IF r.jobs # <<>>
    THEN <<"Found ", FormatCommaInt(r.total), " jobs for '", r.search_term,
           "'. Showing top ", Digits(Len(r.jobs)), " results in the carousel.">>
    ELSE <<"No jobs found for '", r.search_term, "'. Try a broader search.">>

\* lines 565-577
SuccessResult(r) ==
    [kind |-> "result", isError |-> FALSE, text |-> TextSummary(r),
     structuredContent |-> StructuredContent(r)]

----------------------------------------------------------------------------
(* The bounded inputs *)

MaxTermLen == 3
MaxResults == 2

MkDict(f) == Dict([k \in {x \in DOMAIN f : f[x].t # "absent"} |-> f[k]])

SeqsUpTo(S, n) == UNION {[1..k -> S] : k \in 0..n}

\* search terms: absent, null, and every string of blanks, tabs and a letter
TermChars == {" ", "\t", "a"}
TermOptions == {Absent, None} \cup {Str(s) : s \in SeqsUpTo(TermChars, MaxTermLen)}
LimitOptions == {Absent, Num(LIMIT_MIN - 1), Num(LIMIT_MIN), Num(LIMIT_MAX), Num(LIMIT_MAX + 1)}
PageOptions == {Absent, Num(PAGE_MIN - 1), Num(PAGE_MIN), Num(PAGE_MAX), Num(PAGE_MAX + 1)}
ExtraOptions == {Absent, Num(1)}

ArgumentSets ==
    {None} \cup
    {MkDict("searchTerm" :> st @@ "limit" :> l @@ "page" :> p @@ "foo" :> x) :
        st \in TermOptions, l \in LimitOptions, p \in PageOptions, x \in ExtraOptions}

\* a few requests, for the runs that vary the provider's answer instead
DefaultRequest == [name |-> TOOL_NAME, arguments |-> None]
FewRequests ==
    {DefaultRequest,
     [name |-> TOOL_NAME, arguments |-> Dict("searchTerm" :> Str(<<" ", "a">>) @@ "limit" :> Num(5))],
     [name |-> TOOL_NAME, arguments |-> Dict("limit" :> Num(LIMIT_MAX + 1))],
     [name |-> "other-tool", arguments |-> None],
     [name |-> "other-tool", arguments |-> Dict("page" :> Num(PAGE_MAX + 1))]}

Requests == [name : {TOOL_NAME}, arguments : ArgumentSets] \cup FewRequests

\* salary records
AmountOptions ==
    {Absent, None, Num(0), Num(1000), Num(3000), Num(5000), Num(1234567),
     Half(2500), Str(<<"3","0","0","0">>)}
SalaryTypeOptions ==
    {Absent, None, EmptyDict,
     Dict("salaryType" :> Str(<<"m","o","n","t","h","l","y">>)),
     Dict("salaryType" :> Str(<<"P","E","R"," ","h","o","u","r">>)),
     Dict("salaryType" :> Str(<<>>)),
     Dict("salaryType" :> None),
     Dict("salaryType" :> Num(1))}
SalaryInputs ==
    {None, Str(<<"n","/","a">>)} \cup
    {MkDict("minimum" :> lo @@ "maximum" :> hi @@ "type" :> ty) :
        lo \in AmountOptions, hi \in AmountOptions, ty \in SalaryTypeOptions}

\* raw result items: the empty item, and items that each fill in one group of fields
Monthly == Dict("salaryType" :> Str(<<"m","o","n","t","h","l","y">>))
East == Dict("location" :> Str(<<"E","a","s","t">>) @@ "region" :> Str(<<"E">>))
Items ==
    {EmptyDict,
     None,
     Dict("metadata" :> Dict("jobPostId" :> Str(<<"1">>))),
     Dict("metadata" :> Dict("jobPostId" :> Num(7)) @@ "postedCompany" :> None
          @@ "address" :> None @@ "salary" :> None),
     Dict("metadata" :> Dict("jobPostId" :> Str(<<"1">>)) @@ "uuid" :> Str(<<"u">>)),
     Dict("metadata" :> None @@ "uuid" :> Str(<<"u">>)),
     Dict("uuid" :> Str(<<"v">>) @@ "title" :> Str(<<"D","e","v">>)
          @@ "postedCompany" :> Dict("name" :> Str(<<"A","c","m","e">>))
          @@ "metadata" :> Dict("jobDetailsUrl" :> Str(<<"h">>) @@ "updatedAt" :> Str(<<"d">>))
          @@ "score" :> Half(1)),
     Dict("categories" :> List(<<Dict("category" :> Str(<<"I","T">>)), None, EmptyDict,
                                 Dict("category" :> None)>>)
          @@ "skills" :> List(<<Dict("skill" :> Str(<<"g","o">>))>>)
          @@ "employmentTypes" :> List(<<Dict("employmentType" :> Str(<<"F","T">>))>>)),
     Dict("categories" :> None),
     Dict("salary" :> Dict("minimum" :> Num(3000) @@ "maximum" :> Num(5000) @@ "type" :> Monthly)
          @@ "address" :> Dict("street" :> Str(<<"1">>) @@ "districts" :> List(<<East>>)
                               @@ "lat" :> Half(1))),
     Dict("salary" :> Dict("minimum" :> Num(1000) @@ "type" :> None)),
     Dict("address" :> Dict("districts" :> List(<<East>>) @@ "district" :> Str(<<"D">>))),
     Dict("address" :> Dict("districts" :> List(<<None>>)))}

ResultsOptions == {Absent, None} \cup {List(l) : l \in SeqsUpTo(Items, MaxResults)}
TotalOptions == {Absent, None, Num(0), Num(1500), Half(1)}

Bodies == {MkDict("results" :> r @@ "total" :> t) : r \in ResultsOptions, t \in TotalOptions}

NetworkError == [kind |-> "network_error", status |-> 0, body |-> None]
Http(status, body) == [kind |-> "http", status |-> status, body |-> body]

\* every answer of the provider: no answer at all, an error status, or a JSON body
Providers ==
    {NetworkError, Http(404, EmptyDict), Http(503, EmptyDict)}
    \cup {Http(200, b) : b \in Bodies}

\* a few answers, for the runs that vary the request instead
FewProviders ==
    {NetworkError,
     Http(404, EmptyDict),
     Http(300, Dict("results" :> List(<<EmptyDict>>))),
     Http(200, Dict("results" :> List(<<>>))),
     Http(200, Dict("results" :> List(<<EmptyDict, Dict("uuid" :> Str(<<"u">>))>>)
                    @@ "total" :> Num(1500))),
     Http(200, Dict("results" :> List(<<Dict("categories" :> None)>>)))}

----------------------------------------------------------------------------
(* One tool invocation: _call_tool_request, calling _request_jobs *)

Idle ==
    /\ pc = "start"
    /\ payload = None
    /\ httpCalls = 0
    /\ httpRequest = None
    /\ data = None
    /\ result = None
    /\ response = None

NoSalaryCall == salaryRaw = None /\ salaryOut = None

\* every request, a few answers of the provider
Init ==
    /\ req \in Requests
    /\ provider \in FewProviders
    /\ Idle
    /\ NoSalaryCall

\* every answer of the provider to the default request, and a few answers to
\* a few other requests
InitSearch ==
    /\ \/ req = DefaultRequest /\ provider \in Providers
       \/ req \in FewRequests /\ provider \in FewProviders
    /\ Idle
    /\ NoSalaryCall

\* lines 461-473: a request for another tool
UnknownTool ==
    /\ pc = "start"
    /\ req.name # TOOL_NAME
    /\ response' = UnknownToolResult(req.name)
    /\ pc' = "done"
    /\ UNCHANGED <<req, provider, payload, httpCalls, httpRequest, data, result,
                   salaryRaw, salaryOut>>

\* lines 475-492: model_validate raises ValidationError
ValidationFails ==
    /\ pc = "start"
    /\ req.name = TOOL_NAME
    /\ ValidationErrors(Arguments(req)) # <<>>
    /\ response' = ValidationErrorResult(ValidationErrors(Arguments(req)))
    /\ pc' = "done"
    /\ UNCHANGED <<req, provider, payload, httpCalls, httpRequest, data, result,
                   salaryRaw, salaryOut>>

\* lines 475-500: model_validate returns the payload
Validates ==
    /\ pc = "start"
    /\ req.name = TOOL_NAME
    /\ ValidationErrors(Arguments(req)) = <<>>
    /\ payload' = ValidatedPayload(Arguments(req))
    /\ pc' = "validated"
    /\ UNCHANGED <<req, provider, httpCalls, httpRequest, data, result, response,
                   salaryRaw, salaryOut>>

\* lines 143-166: the request _request_jobs issues
PostRequest(p) ==
    [params |-> [limit |-> p.limit, page |-> p.page],
     json |-> [search |-> EffectiveTerm(p.search_term)]]

\* lines 142-178: requests.post or raise_for_status raises a RequestException,
\* which _request_jobs logs and re-raises
RequestFails ==
    /\ pc = "validated"
    /\ provider.kind = "network_error" \/ RaisesForStatus(provider.status)
    /\ httpCalls' = httpCalls + 1
    /\ httpRequest' = PostRequest(payload)
    /\ result' = Raise(IF provider.kind = "network_error"
                       THEN "ConnectionError" ELSE "HTTPError")
    /\ pc' = "returned"
    /\ UNCHANGED <<req, provider, payload, data, response, salaryRaw, salaryOut>>

\* lines 142-251: the request succeeds and the body is normalised, which
\* returns a JobSearchResult or raises
RequestSucceeds ==
    /\ pc = "validated"
    /\ provider.kind = "http" /\ ~RaisesForStatus(provider.status)
    /\ httpCalls' = httpCalls + 1
    /\ httpRequest' = PostRequest(payload)
    /\ data' = provider.body
    /\ result' = SearchResult(EffectiveTerm(payload.search_term), provider.body)
    /\ pc' = "returned"
    /\ UNCHANGED <<req, provider, payload, response, salaryRaw, salaryOut>>

RequestExceptions == {"ConnectionError", "HTTPError"}

\* lines 502-521: except requests.RequestException
RespondTransportError ==
    /\ pc = "returned"
    /\ ~result.ok /\ result.exc \in RequestExceptions
    /\ response' = HandleRequestException(result.exc)
    /\ pc' = "done"
    /\ UNCHANGED <<req, provider, payload, httpCalls, httpRequest, data, result,
                   salaryRaw, salaryOut>>

\* line 503: any other exception of _request_jobs leaves the handler
RespondRaises ==
    /\ pc = "returned"
    /\ ~result.ok /\ result.exc \notin RequestExceptions
    /\ response' = [kind |-> "raised", exc |-> result.exc]
    /\ pc' = "done"
    /\ UNCHANGED <<req, provider, payload, httpCalls, httpRequest, data, result,
                   salaryRaw, salaryOut>>

\* lines 523-577
RespondSuccess ==
    /\ pc = "returned"
    /\ result.ok
    /\ response' = SuccessResult(result.v)
    /\ pc' = "done"
    /\ UNCHANGED <<req, provider, payload, httpCalls, httpRequest, data, result,
                   salaryRaw, salaryOut>>

Next ==
    \/ UnknownTool
    \/ ValidationFails
    \/ Validates
    \/ RequestFails
    \/ RequestSucceeds
    \/ RespondTransportError
    \/ RespondRaises
    \/ RespondSuccess

Spec == Init /\ [][Next]_vars

SearchSpec == InitSearch /\ [][Next]_vars

----------------------------------------------------------------------------
(* A direct call of _format_salary *)

InitSalary ==
    /\ salaryRaw \in SalaryInputs
    /\ salaryOut = None
    /\ req = DefaultRequest
    /\ provider = NetworkError
    /\ Idle

FormatSalaryCall ==
    /\ salaryOut = None
    /\ salaryOut' = _format_salary(salaryRaw)
    /\ UNCHANGED <<pc, req, provider, payload, httpCalls, httpRequest, data, result,
                   response, salaryRaw>>

NextSalary == FormatSalaryCall

SalarySpec == InitSalary /\ [][NextSalary]_vars

----------------------------------------------------------------------------
(* The properties *)

\* _request_jobs has returned a JobSearchResult
SearchReturned == pc \in {"returned", "done"} /\ httpCalls = 1 /\ result.ok

\* the handler has returned a success result
Succeeded == pc = "done" /\ response.kind = "result" /\ ~response.isError

\* the provider's results list, as the loop of a returned search saw it
RawResults == Or(Get(data, "results", List(<<>>)), List(<<>>)).l

Jobs == result.v.jobs

\* the identifier the provider supplies for an item, None when it supplies none
ProvidedId(item) ==
    Or(Get(IF "metadata" \in DOMAIN item.d /\ IsDict(item.d["metadata"])
           THEN item.d["metadata"] ELSE EmptyDict, "jobPostId", None),
       Get(item, "uuid", None))

\* no two items carry the same provider identifier, and no provider identifier
\* reads as the position of an item that carries none
NoProviderCollision(items) ==
    \A i, j \in 1..Len(items) :
        i # j /\ Truthy(ProvidedId(items[i])) =>
            IF Truthy(ProvidedId(items[j]))
            THEN PyStr(ProvidedId(items[i])) # PyStr(ProvidedId(items[j]))
            ELSE PyStr(ProvidedId(items[i])) # Digits(j - 1)

IdsNonEmpty == \A i \in 1..Len(Jobs) : Jobs[i].id # <<>>

IdsDistinct == \A i, j \in 1..Len(Jobs) : i # j => Jobs[i].id # Jobs[j].id

\* C1 as stated: after normalisation every posting of the returned jobs has a
\* non-empty id and no two postings share an id, for every provider response.
C1_IdsUniqueForEveryResponse == SearchReturned => IdsNonEmpty /\ IdsDistinct

\* C1 as amended: every posting has a non-empty id, and no two postings share
\* an id whenever the provider's own identifiers do not collide with each
\* other or with the position of an item that has none.
C1_IdsUniqueAbsentProviderCollisions ==
    SearchReturned =>
        /\ IdsNonEmpty
        /\ NoProviderCollision(RawResults) => IdsDistinct

\* two items without any provider identifier got the ids "0" and "1"
C1_Witness ==
    /\ SearchReturned
    /\ Len(Jobs) = 2
    /\ ~Truthy(ProvidedId(RawResults[1])) /\ ~Truthy(ProvidedId(RawResults[2]))
    /\ Jobs[1].id = <<"0">> /\ Jobs[2].id = <<"1">>

\* the provider answered with a 2xx status and a JSON body whose results are
\* a list of objects (or are missing or null)
ResponseReceived ==
    /\ pc \in {"returned", "done"}
    /\ httpCalls = 1
    /\ provider.kind = "http" /\ provider.status \in 200..299
    /\ \A i \in 1..Len(RawResults) : IsDict(RawResults[i])

\* C2: for every successfully received provider response, whatever the shape
\* of its items, the search does not fail: a JobSearchResult is returned.
C2_SearchNeverFailsOnShape == ResponseReceived => result.ok

\* _format_salary has been called
SalaryCalled == "ok" \in DOMAIN salaryOut

\* a value that is present: the key is there and is not null
Present(d, key) == key \in DOMAIN d.d /\ ~IsNone(d.d[key])

\* the salary-type string of a record, the empty string when there is none
SalaryTypeOf(raw) ==
    IF Present(raw, "type") /\ IsDict(raw.d["type"])
       /\ Present(raw.d["type"], "salaryType") /\ IsStr(raw.d["type"].d["salaryType"])
    THEN raw.d["type"].d["salaryType"].s
    ELSE <<>>

\* the rendering the salary rules prescribe for a record whose minimum and
\* maximum are numbers or absent
PrescribedSalary(raw) ==
    IF IsNone(raw) \/ DOMAIN raw.d = {} THEN None
    ELSE IF ~Present(raw, "minimum") /\ ~Present(raw, "maximum") THEN None
    ELSE LET suffix == IF SalaryTypeOf(raw) # <<>>
                       THEN <<" ">> \o Title(SalaryTypeOf(raw)) ELSE <<>>
             amount(key) == <<"$">> \o FormatCommaF(raw.d[key])
         IN  IF Present(raw, "minimum") /\ Present(raw, "maximum")
                /\ raw.d["minimum"] # raw.d["maximum"]
             THEN Str(amount("minimum") \o <<" ", EnDash, " ">> \o amount("maximum")
                      \o suffix)
             ELSE Str(amount(IF Present(raw, "minimum") THEN "minimum" ELSE "maximum")
                      \o suffix)

\* the records C3 speaks of: minimum and maximum each a number or absent, and
\* a salary type that is absent or a record whose salaryType is absent or a string
NumericSalaryRecord(raw) ==
    \/ IsNone(raw)
    \/ /\ IsDict(raw)
       /\ \A key \in {"minimum", "maximum"} : Present(raw, key) => IsNum(raw.d[key])
       /\ "type" \in DOMAIN raw.d =>
             /\ IsDict(raw.d["type"])
             /\ "salaryType" \in DOMAIN raw.d["type"].d =>
                   IsStr(raw.d["type"].d["salaryType"])

\* C3: for every salary record whose minimum and maximum are each a number
\* (including 0) or absent, format_salary returns absent when the record is
\* absent or empty or holds neither value, the range when both are present and
\* differ, otherwise the single present value preferring minimum, followed by
\* the title-cased salary type when there is one.
C3_SalaryRenderedAsPrescribed ==
    SalaryCalled /\ NumericSalaryRecord(salaryRaw) =>
        salaryOut = Ok(PrescribedSalary(salaryRaw))

\* C4: format_salary lets no exception escape, whatever the record holds: the
\* call returns a string or absent.
C4_SalaryNeverRaises ==
    SalaryCalled /\ (IsNone(salaryRaw) \/ IsDict(salaryRaw)) =>
        salaryOut.ok /\ (IsNone(salaryOut.v) \/ IsStr(salaryOut.v))

\* the response carries a total: a number under the key "total"
CarriesTotal == Present(data, "total") /\ IsNum(data.d["total"])

\* the total is an integer, when there is one
TotalIsIntegral == CarriesTotal => ~data.d["total"].h

\* C5: the returned total is a non-negative integer, equal to the
\* provider-reported total whenever the response carries one (a reported 0
\* beside a non-empty results list included), and to the number of postings
\* only when it carries none.
C5_TotalIsProviderTotal ==
    SearchReturned /\ TotalIsIntegral =>
        /\ result.v.total >= 0
        /\ result.v.total = IF CarriesTotal THEN data.d["total"].n ELSE Len(Jobs)

\* the fields of the arguments that make the input invalid: a limit outside
\* 1..50, a page outside 0..50, an unknown field
OffendingFields(arguments) ==
    {k \in DOMAIN arguments.d :
        \/ k \notin {"searchTerm", "limit", "page"}
        \/ k = "limit" /\ arguments.d[k].n \notin 1..50
        \/ k = "page" /\ arguments.d[k].n \notin 0..50}

InvalidInput == OffendingFields(Arguments(req)) # {}

InvalidInvocation == req.name = TOOL_NAME /\ InvalidInput

\* C6: an invocation whose input is invalid issues no HTTP request at any
\* point and ends in an error response; the response to an invocation of the
\* tool carries the validation error list, one entry at least for each
\* offending field (a request that names another tool is refused by name).
C6_ValidationPrecedesNetwork ==
    InvalidInput =>
        /\ httpCalls = 0 /\ httpRequest = None
        /\ pc \in {"start", "done"}
        /\ pc = "done" =>
              /\ response.kind = "result" /\ response.isError
              /\ req.name = TOOL_NAME =>
                    /\ response.text[1] = "Input validation error: "
                    /\ \A k \in OffendingFields(Arguments(req)) :
                          \E i \in 1..Len(response.text[2]) :
                              response.text[2][i].loc = k

\* an invocation with limit = 51 has ended in the validation error
C6_Witness ==
    /\ pc = "done"
    /\ InvalidInvocation
    /\ "limit" \in DOMAIN Arguments(req).d /\ Arguments(req).d["limit"] = Num(51)
    /\ OffendingFields(Arguments(req)) = {"limit"}
    /\ response.isError

\* the handler has ended in an error response with a message
EndedInTransportError ==
    /\ response.kind = "result" /\ response.isError
    /\ response.text[1] = "Unable to fetch jobs from MyCareersFuture: "
    /\ response.text[2] \in RequestExceptions

C8_OnePostingPerItemInOrder ==
    SearchReturned =>
        /\ Len(Jobs) = Len(RawResults)
        /\ \A i \in 1..Len(Jobs) : Ok(Jobs[i]) = NormalizeItem(RawResults[i], i - 1)

\* two different items came back as two different postings, in their order
C8_Witness ==
    /\ SearchReturned
    /\ Len(RawResults) = 2
    /\ RawResults[1] # RawResults[2]
    /\ Jobs[1].title = <<"D","e","v">> /\ Jobs[2].title = UntitledRole

\* t is s without its leading and trailing whitespace
IsTrimOf(t, s) ==
    /\ t # <<>>
    /\ t[1] \notin Whitespace /\ t[Len(t)] \notin Whitespace
    /\ \E a \in 0..Len(s), b \in 0..Len(s) :
          /\ a <= b
          /\ SubSeq(s, a + 1, b) = t
          /\ \A k \in 1..a : s[k] \in Whitespace
          /\ \A k \in (b + 1)..Len(s) : s[k] \in Whitespace

\* the searchTerm of the request: a string with a character that is no whitespace
HasTerm(arguments) ==
    /\ Present(arguments, "searchTerm")
    /\ \E i \in 1..Len(arguments.d["searchTerm"].s) :
          arguments.d["searchTerm"].s[i] \notin Whitespace

\* C9: the term sent to the provider is the input without its surrounding
\* whitespace, or "software engineer" when the input is absent, empty or
\* blank; it is never empty, and the search_term returned is that same term.
C9_EffectiveTermIsTrimmedOrDefault ==
    httpCalls = 1 =>
        /\ httpRequest.json.search # <<>>
        /\ IF HasTerm(Arguments(req))
           THEN IsTrimOf(httpRequest.json.search, Arguments(req).d["searchTerm"].s)
           ELSE httpRequest.json.search = DefaultTerm
        /\ result.ok => result.v.search_term = httpRequest.json.search
        /\ Succeeded => response.structuredContent.searchTerm = httpRequest.json.search

\* the input " a " came back as the term "a"
C9_Witness ==
    /\ Succeeded
    /\ HasTerm(Arguments(req))
    /\ Arguments(req).d["searchTerm"].s = <<" ", "a", " ">>
    /\ response.structuredContent.searchTerm = <<"a">>

\* an empty results list and no total
EmptyAnswer ==
    /\ "total" \notin DOMAIN data.d
    /\ "results" \in DOMAIN data.d /\ data.d["results"] = List(<<>>)

\* C10 as stated: the summary is "Found N jobs for '<term>'. Showing top M
\* results." or, when no jobs are returned, "No jobs found for '<term>'. Try a
\* broader search."; an empty results list with no total yields total 0, no
\* jobs and the second summary.
C10_SummaryAsStated ==
    Succeeded =>
        /\ response.text =
              IF Jobs # <<>>
              THEN <<"Found ", FormatCommaInt(result.v.total), " jobs for '",
                     result.v.search_term, "'. Showing top ", Digits(Len(Jobs)),
                     " results.">>
              ELSE <<"No jobs found for '", result.v.search_term,
                     "'. Try a broader search.">>
        /\ EmptyAnswer => result.v.total = 0 /\ Jobs = <<>>

\* C10 as amended: the summary is "Found N jobs for '<term>'. Showing top M
\* results in the carousel.", N the total with thousands separators, M the
\* number of jobs returned, or, when no jobs are returned, "No jobs found for
\* '<term>'. Try a broader search."; an empty results list with no total yields
\* total 0, no jobs and the second summary.
C10_SummaryInTheCarousel ==
    Succeeded =>
        /\ response.text =
              IF Jobs # <<>>
              THEN <<"Found ", FormatCommaInt(result.v.total), " jobs for '",
                     result.v.search_term, "'. Showing top ", Digits(Len(Jobs)),
                     " results in the carousel.">>
              ELSE <<"No jobs found for '", result.v.search_term,
                     "'. Try a broader search.">>
        /\ EmptyAnswer =>
              /\ result.v.total = 0 /\ Jobs = <<>>
              /\ response.text[1] = "No jobs found for '"

\* a total of 1500 with two jobs returned was summarised
C10_Witness ==
    /\ Succeeded
    /\ result.v.total = 1500 /\ Len(Jobs) = 2
    /\ response.text[2] = <<"1", ",", "5", "0", "0">>

====
